---- MODULE Spec2Model ----
(***************************************************************************)
(* A model of awsrolemanager (src/awsrolemanager/awsrolemanager.py).       *)
(*                                                                         *)
(* Text is a sequence of characters.  A character is a one-character       *)
(* string; the fixed words of the program's templates and of the sample    *)
(* inputs ("aws_access_key_id", "assumed-role", ...) are kept as one       *)
(* element each: such a word stands for a run of ordinary characters,      *)
(* none of which is a delimiter of the store format ('=', '[', ']', '#',   *)
(* blank, newline) or of an ARN (':', '/'), so splitting, stripping and    *)
(* prefix tests treat it exactly as they treat the spelled-out run.        *)
(*                                                                         *)
(* A Python dict is a sequence of <<key, value>> pairs with distinct keys, *)
(* in insertion order.  A function that returns a dict or None returns     *)
(* Some(d) or None.                                                        *)
(***************************************************************************)
EXTENDS Integers, Sequences, FiniteSets, TLC

VARIABLES
    credsFile,      \* contents of ~/.aws/credentials
    configFile,     \* contents of ~/.aws/config
    environ,        \* os.environ of the tool's process
    pc,             \* "shell": no invocation running; "prompt": run_ui blocked in input()
    data,           \* run_ui: the merged profiles
    keys,           \* run_ui: the names print_table returned
    role_number,    \* run_ui: role_number
    table,          \* the rows print_table rendered last
    now,            \* the clock print_table's render read, in ticks
    spawned,        \* the launch_role calls of the current invocation
    kbd,            \* the last answer read at the prompt
    stdin,          \* the text the last no-argument invocation read
    out,            \* how the last finished invocation or call ended
    ret,            \* the value returned by the function last applied
    n_ingest,       \* number of no-argument invocations run so far
    ingested        \* the payloads save_credentials has saved, oldest first

vars == <<credsFile, configFile, environ, pc, data, keys, role_number, table,
          now, spawned, kbd, stdin, out, ret, n_ingest, ingested>>

----------------------------------------------------------------------------
(* Python values *)

None == [isNone |-> TRUE, data |-> <<>>]
Some(d) == [isNone |-> FALSE, data |-> d]

\* Python truth value of a dict-or-None: None and the empty dict are false.
Falsy(x) == x.isNone \/ x.data = <<>>

DictHas(d, k) == \E i \in 1..Len(d) : d[i][1] = k
DictIndex(d, k) == CHOOSE i \in 1..Len(d) : d[i][1] = k
DictGet(d, k) == d[DictIndex(d, k)][2]
\* d[k] = v: an existing key keeps its place, a new key goes last.
DictSet(d, k, v) ==
    IF DictHas(d, k) THEN [d EXCEPT ![DictIndex(d, k)] = <<k, v>>]
    ELSE Append(d, <<k, v>>)
DictKeys(d) == [i \in 1..Len(d) |-> d[i][1]]

\* a | b
RECURSIVE DictUnion(_, _)
DictUnion(a, b) ==
    IF b = <<>> THEN a
    ELSE DictUnion(DictSet(a, b[1][1], b[1][2]), Tail(b))

----------------------------------------------------------------------------
(* str methods *)

Whitespace == {" ", "\t"}
Brackets == {"[", "]"}

RECURSIVE LStrip(_, _)
LStrip(s, cs) ==
    IF s # <<>> /\ Head(s) \in cs THEN LStrip(Tail(s), cs) ELSE s

RECURSIVE RStrip(_, _)
RStrip(s, cs) ==
    IF s # <<>> /\ s[Len(s)] \in cs THEN RStrip(SubSeq(s, 1, Len(s) - 1), cs) ELSE s

\* s.strip() with cs = Whitespace, s.strip('[]') with cs = Brackets
Strip(s, cs) == RStrip(LStrip(s, cs), cs)

StartsWith(s, c) == s # <<>> /\ Head(s) = c

\* index of the first c in s, 0 when there is none
Find(s, c) ==
    IF \E i \in 1..Len(s) : s[i] = c
    THEN CHOOSE i \in 1..Len(s) : s[i] = c /\ \A j \in 1..(i - 1) : s[j] # c
    ELSE 0

\* s.split(sep)
RECURSIVE Split(_, _)
Split(s, sep) ==
    LET i == Find(s, sep) IN
    IF i = 0 THEN <<s>>
    ELSE <<SubSeq(s, 1, i - 1)>> \o Split(SubSeq(s, i + 1, Len(s)), sep)

\* s.split(sep, 1)
Split1(s, sep) ==
    LET i == Find(s, sep) IN
    IF i = 0 THEN <<s>>
    ELSE <<SubSeq(s, 1, i - 1), SubSeq(s, i + 1, Len(s))>>

\* sep.join(parts)
RECURSIVE Join(_, _)
Join(parts, sep) ==
    IF parts = <<>> THEN <<>>
    ELSE IF Len(parts) = 1 THEN parts[1]
    ELSE parts[1] \o <<sep>> \o Join(Tail(parts), sep)

----------------------------------------------------------------------------
(* parse_config_file *)

\* The loop's state: return_data, config_item, and whether the loop has
\* left through "return None".
ParseStart == [return_data |-> <<>>, config_item |-> <<>>, failed |-> FALSE]

\* line 131-133: a section header
SectionHeaderKeep(st, line) ==
    LET config_item == Strip(line, Brackets) IN
    [st EXCEPT !.config_item = config_item,
               !.return_data = IF DictHas(@, config_item) THEN @
                               ELSE DictSet(@, config_item, <<>>)]

SectionHeader(st, line) ==
    LET config_item == Strip(line, Brackets) IN
    [st EXCEPT !.config_item = config_item,
               !.return_data = DictSet(@, config_item, <<>>)]

\* line 135-146: any other line
KeyValueLineSkipFirst(st, line) ==
    LET kv == Split1(line, "=") IN
    IF st.config_item = <<>> THEN st
    ELSE IF Len(kv) # 2 THEN [st EXCEPT !.failed = TRUE]
    ELSE [st EXCEPT !.return_data =
            DictSet(@, st.config_item,
                    DictSet(DictGet(@, st.config_item),
                            Strip(kv[1], Whitespace), Strip(kv[2], Whitespace)))]

KeyValueLine(st, line) ==
    LET kv == Split1(line, "=") IN
    IF Len(kv) # 2 THEN [st EXCEPT !.failed = TRUE]
    ELSE IF st.config_item = <<>> THEN st
    ELSE [st EXCEPT !.return_data =
            DictSet(@, st.config_item,
                    DictSet(DictGet(@, st.config_item),
                            Strip(kv[1], Whitespace), Strip(kv[2], Whitespace)))]

\* line 122-146: one turn of the loop
ParseLine(st, raw) ==
    LET line == Strip(raw, Whitespace) IN
    IF Len(line) = 0 THEN st
    ELSE IF StartsWith(line, "#") THEN st
    ELSE IF StartsWith(line, "[") THEN SectionHeader(st, line)
    ELSE KeyValueLine(st, line)

RECURSIVE ParseLines(_, _)
ParseLines(st, lines) ==
    IF st.failed THEN None
    ELSE IF lines = <<>> THEN Some(st.return_data)
    ELSE ParseLines(ParseLine(st, Head(lines)), Tail(lines))

\* parse_config_file, applied to the text of the file at the path
\* (the file exists and opens for reading; the debugger stop at line 143 is
\* continued, so a malformed line ends the call with None)
ParseConfigFile(text) == ParseLines(ParseStart, Split(text, "\n"))

----------------------------------------------------------------------------
(* Results of an expression that may raise *)

Ok(v) == [err |-> "", val |-> v]
Err(e) == [err |-> e, val |-> <<>>]

\* d[k] on a dict
Subscript(d, k) == IF DictHas(d, k) THEN Ok(DictGet(d, k)) ELSE Err("KeyError")

\* parts[n] on a list, n counted from 0
Item(parts, n) == IF n < Len(parts) THEN Ok(parts[n + 1]) ELSE Err("IndexError")

----------------------------------------------------------------------------
(* get_*_from_arn *)

GetAccountNumberFromArn(arn) == Item(Split(arn, ":"), 4)
GetRoleNameFromArn(arn) == Item(Split(arn, "/"), 1)
GetSessionNameFromArn(arn) == Item(Split(arn, "/"), 2)

----------------------------------------------------------------------------
(* save_credentials *)

\* line 71
ProfileName(account_number, role_name, session_name) ==
    account_number \o <<"-">> \o role_name \o <<"-">> \o session_name

\* line 78-83
CredsBlock(profile_name, access_key_id, secret_access_key, session_token) ==
    <<"\n", "[">> \o profile_name \o <<"]", "\n">>
    \o <<"aws_access_key_id", " ", "=", " ">> \o access_key_id \o <<"\n">>
    \o <<"aws_secret_access_key", " ", "=", " ">> \o secret_access_key \o <<"\n">>
    \o <<"aws_session_token", " ", "=", " ">> \o session_token \o <<"\n">>

\* line 89-96
ConfigBlock(profile_name, session_name, expiration, role_name) ==
    <<"\n", "[">> \o profile_name \o <<"]", "\n">>
    \o <<"region", " ", "=", " ", "us-east-1", "\n">>
    \o <<"output", " ", "=", " ", "json", "\n">>
    \o <<"session_name", " ", "=", " ">> \o session_name \o <<"\n">>
    \o <<"expiration", " ", "=", " ">> \o expiration \o <<"\n">>
    \o <<"role_name", " ", "=", " ">> \o role_name \o <<"\n">>

\* What the file system does to one invocation: failAt names the call that
\* raises OSError ("none": no call does), written is how much of the block a
\* failing write has put in the file before it raises.
NoFailure == [failAt |-> "none", written |-> 0]

\* What a failing write leaves of the block in the file.
Written(block, io) ==
    SubSeq(block, 1, IF io.written < Len(block) THEN io.written ELSE Len(block) - 1)

\* save_credentials(sts_creds) on stores creds, config: the stores afterwards
\* and the profile name returned or the exception raised.  sts_creds is the
\* decoded JSON value: a dict (type "dict", its items) or a value that has no
\* string subscripts (type "list").
Saved(creds, config, result) ==
    [credsFile |-> creds, configFile |-> config, result |-> result]

\* line 87-100: the config store
SaveConfigBlock(sts_creds, creds, config, io, profile_name, cblock, block) ==
    IF io.failAt = "openConfig" THEN Saved(creds \o cblock, config, Err("OSError"))
    ELSE IF io.failAt = "writeConfig"
    THEN Saved(creds \o cblock, config \o Written(block, io), Err("OSError"))
    ELSE Saved(creds \o cblock, config \o block, Ok(profile_name))

SaveCredentials(sts_creds, creds, config, io) ==
    LET Fail(e) == Saved(creds, config, Err(e))
        user == IF sts_creds.type # "dict" THEN Err("TypeError")
                ELSE Subscript(sts_creds.items, "AssumedRoleUser")
        arn == IF user.err = "" THEN Subscript(user.val, "Arn") ELSE user
        account_number == GetAccountNumberFromArn(arn.val)
        role_name == GetRoleNameFromArn(arn.val)
        session_name == GetSessionNameFromArn(arn.val)
        credentials == Subscript(sts_creds.items, "Credentials")
        Field(k) == IF credentials.err = "" THEN Subscript(credentials.val, k)
                    ELSE credentials
        expiration == Field("Expiration")
        access_key_id == Field("AccessKeyId")
        secret_access_key == Field("SecretAccessKey")
        session_token == Field("SessionToken")
        profile_name == ProfileName(account_number.val, role_name.val, session_name.val)
        cblock == CredsBlock(profile_name, access_key_id.val, secret_access_key.val,
                             session_token.val)
        block == ConfigBlock(profile_name, session_name.val, expiration.val, role_name.val)
    IN
    IF arn.err # "" THEN Fail(arn.err)
    ELSE IF account_number.err # "" THEN Fail(account_number.err)
    ELSE IF role_name.err # "" THEN Fail(role_name.err)
    ELSE IF session_name.err # "" THEN Fail(session_name.err)
    ELSE IF expiration.err # "" THEN Fail(expiration.err)
    ELSE IF io.failAt = "openCreds" THEN Fail("OSError")
    ELSE IF access_key_id.err # "" THEN Fail(access_key_id.err)
    ELSE IF secret_access_key.err # "" THEN Fail(secret_access_key.err)
    ELSE IF session_token.err # "" THEN Fail(session_token.err)
    ELSE IF io.failAt = "writeCreds"
    THEN Saved(creds \o Written(cblock, io), config, Err("OSError"))
    ELSE SaveConfigBlock(sts_creds, creds, config, io, profile_name, cblock, block)

----------------------------------------------------------------------------
(* parse_configuration_data *)

\* line 170-178
MergeProfiles(cred_items, config_items) ==
    [i \in 1..Len(cred_items) |->
        LET key == cred_items[i][1]
            value == cred_items[i][2]
        IN IF ~DictHas(config_items, key) THEN <<key, value>>
           ELSE <<key, DictUnion(value, DictGet(config_items, key))>>]

\* parse_configuration_data, on the texts of the two stores
ParseConfigurationData(config_text, creds_text) ==
    LET config_items == ParseConfigFile(config_text)
        cred_items == ParseConfigFile(creds_text)
    IN IF Falsy(config_items) THEN None
       ELSE IF Falsy(cred_items) THEN None
       ELSE Some(MergeProfiles(cred_items.data, config_items.data))

----------------------------------------------------------------------------
(* get_time_difference *)

\* Time is counted in ticks of 1/TicksPerSecond s from 1970-01-01T00:00:00.
TicksPerSecond == 2

Digits == <<"0", "1", "2", "3", "4", "5", "6", "7", "8", "9">>
IsDigit(c) == \E i \in 1..10 : Digits[i] = c
DigitVal(c) == (CHOOSE i \in 1..10 : Digits[i] = c) - 1

\* strptime(timestamp, '%Y-%m-%dT%H:%M:%S+00:00'), for the timestamps of the
\* first hour of 1970-01-01 with two-digit fields: the seconds since
\* 1970-01-01T00:00:00, ValueError for any other text.
StrpTime(timestamp) ==
    IF /\ Len(timestamp) = 10
       /\ timestamp[1] = "1970-01-01T00" /\ timestamp[2] = ":"
       /\ IsDigit(timestamp[3]) /\ DigitVal(timestamp[3]) < 6 /\ IsDigit(timestamp[4])
       /\ timestamp[5] = ":"
       /\ IsDigit(timestamp[6]) /\ DigitVal(timestamp[6]) < 6 /\ IsDigit(timestamp[7])
       /\ timestamp[8] = "+00" /\ timestamp[9] = ":" /\ timestamp[10] = "00"
    THEN Ok(60 * (10 * DigitVal(timestamp[3]) + DigitVal(timestamp[4]))
            + 10 * DigitVal(timestamp[6]) + DigitVal(timestamp[7]))
    ELSE Err("ValueError")

\* get_time_difference(timestamp) when utcnow() reads utcnow: the difference
\* in ticks.
GetTimeDifference(timestamp, utcnow) ==
    LET expire_date == StrpTime(timestamp) IN
    IF expire_date.err # "" THEN expire_date
    ELSE Ok(TicksPerSecond * expire_date.val - utcnow)

----------------------------------------------------------------------------
(* print_table *)

\* int(x) of the float that is ticks / per: truncation towards zero
IntOf(ticks, per) == IF ticks >= 0 THEN ticks \div per ELSE -((-ticks) \div per)
Abs(n) == IF n < 0 THEN -n ELSE n

YellowBelow == 600
RedBelow == 60
MinuteSeconds == 60

\* line 222-226
ColorInclusive(seconds) ==
    IF seconds < RedBelow THEN "red"
    ELSE IF seconds <= YellowBelow THEN "yellow"
    ELSE "green"

Color(seconds) ==
    IF seconds < RedBelow THEN "red"
    ELSE IF seconds < YellowBelow THEN "yellow"
    ELSE "green"

\* line 212-227: the "Time Remaining" cell of a row.  kind "N/A" is the text
\* N/A, "expired" the text "Expired {n} minutes ago", "seconds" the text
\* "{n} seconds"; color "" is uncoloured text.
Cell(kind, n, color) == [kind |-> kind, n |-> n, color |-> color]

Expiration(profile, utcnow) ==
    IF ~DictHas(profile, <<"expiration">>) THEN Ok(Cell("N/A", 0, ""))
    ELSE LET expiration_seconds ==
                 GetTimeDifference(DictGet(profile, <<"expiration">>), utcnow)
         IN IF expiration_seconds.err # "" THEN expiration_seconds
            ELSE IF expiration_seconds.val < 0
            THEN Ok(Cell("expired",
                         Abs(IntOf(expiration_seconds.val, MinuteSeconds * TicksPerSecond)),
                         "red"))
            ELSE Ok(Cell("seconds", IntOf(expiration_seconds.val, TicksPerSecond),
                         Color(IntOf(expiration_seconds.val, TicksPerSecond))))

\* line 210-235: row i
Row(profile_data, i, utcnow) ==
    LET key == profile_data[i][1]
        profile == profile_data[i][2]
        expiration == Expiration(profile, utcnow)
    IN [index |-> i, name |-> key,
        role_name |-> IF DictHas(profile, <<"role_name">>)
                      THEN DictGet(profile, <<"role_name">>) ELSE <<>>,
        session_name |-> IF DictHas(profile, <<"session_name">>)
                         THEN DictGet(profile, <<"session_name">>) ELSE <<>>,
        expiration |-> expiration.val, err |-> expiration.err]

\* print_table(profile_data) when the clock reads clock[i] while row i is
\* made: the rows printed and the list returned, or the exception raised.
PrintTable(profile_data, clock) ==
    LET rows == [i \in 1..Len(profile_data) |-> Row(profile_data, i, clock[i])] IN
    IF \E i \in 1..Len(rows) : rows[i].err # "" THEN Err("ValueError")
    ELSE Ok([rows |-> rows, keys |-> DictKeys(profile_data)])

----------------------------------------------------------------------------
(* launch_role *)

\* dict.pop(k, default)
Pop(d, k) ==
    IF DictHas(d, k)
    THEN SubSeq(d, 1, DictIndex(d, k) - 1) \o SubSeq(d, DictIndex(d, k) + 1, Len(d))
    ELSE d

\* line 251-261: the environment of the terminal
CustomEnvKeepToken(env, profile_name) ==
    DictSet(Pop(Pop(Pop(Pop(env, "AWS_PROFILE"), "AWS_DEFAULT_PROFILE"),
                    "AWS_ACCESS_KEY_ID"), "AWS_SECRET_ACCESS_KEY"),
            "AWS_PROFILE", profile_name)

CustomEnv(env, profile_name) ==
    DictSet(Pop(Pop(Pop(Pop(Pop(env, "AWS_PROFILE"), "AWS_DEFAULT_PROFILE"),
                        "AWS_ACCESS_KEY_ID"), "AWS_SECRET_ACCESS_KEY"),
                "AWS_SESSION_TOKEN"),
            "AWS_PROFILE", profile_name)

\* launch_role(profile_name, config_data) in a process whose os.environ is
\* env: os.environ afterwards and the call of Popen; started tells whether
\* Popen found the terminal's executable.
LaunchRole(profile_name, config_data, env, started) ==
    [environ |-> env,
     call |-> [profile_name |-> profile_name, config_data |-> config_data,
               env |-> CustomEnv(env, profile_name), started |-> started]]

----------------------------------------------------------------------------
(* int(keyboard_intput) *)

RECURSIVE Decimal(_)
Decimal(ds) ==
    IF ds = <<>> THEN 0
    ELSE 10 * Decimal(SubSeq(ds, 1, Len(ds) - 1)) + DigitVal(ds[Len(ds)])

\* int(text): blanks around the number and one sign before it are accepted
PyInt(text) ==
    LET t == Strip(text, Whitespace)
        signed == t # <<>> /\ Head(t) \in {"-", "+"}
        ds == IF signed THEN Tail(t) ELSE t
    IN IF ds # <<>> /\ \A i \in 1..Len(ds) : IsDigit(ds[i])
       THEN Ok(IF signed /\ Head(t) = "-" THEN -Decimal(ds) ELSE Decimal(ds))
       ELSE Err("ValueError")

----------------------------------------------------------------------------
(* run_ui *)

\* list[i], i counted from 0, a negative i from the end
PyIndex(list, i) == IF i >= 0 THEN list[i + 1] ELSE list[Len(list) + i + 1]

\* line 285, 297: role_number in range(1, number_of_roles+1)
InRangeFromZero(number, number_of_roles) ==
    0 <= number /\ number < number_of_roles + 1

InRange(number, number_of_roles) ==
    1 <= number /\ number < number_of_roles + 1

\* How an invocation ended: kind "saved" (the profile name printed is name),
\* "invalid_json", "exit", "no_data", "interrupted", "launched", "nothing",
\* or "raised" (an exception exc no handler catches ended it); "" while none
\* has ended.
Ended(kind, name, exc) == [kind |-> kind, name |-> name, exc |-> exc]
NoOut == Ended("", <<>>, "")

NoStdin == [kind |-> "", json |-> FALSE, value |-> [type |-> "", items |-> <<>>]]
NoKbd == [kind |-> "", text |-> <<>>]
NotApplied == [applied |-> FALSE, value |-> None]
Returned(v) == [applied |-> TRUE, value |-> v]

\* line 274-284: run_ui up to its first prompt, the clock reading clock[i]
\* while row i of the table is made
\* (data is truthy past line 275, so the number_of_roles == 0 branch of line
\* 280 is never taken)
RunUiStart(clock) ==
    LET d == ParseConfigurationData(configFile, credsFile)
        t == PrintTable(d.data, clock)
    IN
    /\ spawned' = <<>>
    /\ kbd' = NoKbd
    /\ stdin' = NoStdin
    /\ UNCHANGED <<credsFile, configFile, environ, ret, n_ingest, ingested>>
    /\ IF Falsy(d)
       THEN /\ out' = Ended("no_data", <<>>, "")
            /\ UNCHANGED <<pc, data, keys, role_number, table, now>>
       ELSE IF t.err # ""
       THEN /\ out' = Ended("raised", <<>>, t.err)
            /\ data' = d.data
            /\ now' = clock
            /\ UNCHANGED <<pc, keys, role_number, table>>
       ELSE /\ out' = NoOut
            /\ data' = d.data
            /\ now' = clock
            /\ table' = t.val.rows
            /\ keys' = t.val.keys
            /\ role_number' = 0
            /\ pc' = "prompt"

\* line 291-297: the answer is a number that ends the loop
Selects(answer, number_of_roles) ==
    /\ answer.kind = "line"
    /\ PyInt(answer.text).err = ""
    /\ InRange(PyInt(answer.text).val, number_of_roles)

\* line 285-302: one answer at the prompt and what run_ui does with it
Prompt(answer, started) ==
    LET number_of_roles == Len(keys)
        n == PyInt(answer.text)
        profile_name == PyIndex(keys, n.val - 1)
        r == LaunchRole(profile_name, DictGet(data, profile_name), environ, started)
    IN
    /\ pc = "prompt"
    /\ kbd' = answer
    /\ UNCHANGED <<credsFile, configFile, data, keys, table, now, stdin, ret,
                   n_ingest, ingested>>
    /\ IF answer.kind = "interrupt"
       THEN /\ pc' = "shell"
            /\ out' = Ended("interrupted", <<>>, "")
            /\ UNCHANGED <<environ, role_number, spawned>>
       ELSE IF answer.kind = "eof"
       THEN /\ pc' = "shell"
            /\ out' = Ended("raised", <<>>, "EOFError")
            /\ UNCHANGED <<environ, role_number, spawned>>
       ELSE IF n.err # ""
       THEN UNCHANGED <<pc, out, environ, role_number, spawned>>
       ELSE IF ~Selects(answer, number_of_roles)
       THEN /\ role_number' = n.val
            /\ UNCHANGED <<pc, out, environ, spawned>>
       ELSE /\ role_number' = n.val
            /\ pc' = "shell"
            /\ environ' = r.environ
            /\ spawned' = Append(spawned, r.call)
            /\ out' = IF started THEN Ended("launched", profile_name, "")
                      ELSE Ended("raised", profile_name, "FileNotFoundError")

----------------------------------------------------------------------------
(* main *)

\* json.loads(creds): a text is described by whether it is JSON and, if it
\* is, by the value it encodes.
JsonLoads(creds) == IF creds.json THEN Ok(creds.value) ELSE Err("JSONDecodeError")

\* line 311-321: the no-argument invocation on the text read from standard
\* input: the stores afterwards and how the invocation ended
IngestWritesFirst(creds, credsText, configText, io) ==
    LET cred_obj == JsonLoads(creds)
        saved == SaveCredentials(cred_obj.val, credsText, configText, io)
    IN IF creds.kind = "interrupt"
       THEN [credsFile |-> credsText, configFile |-> configText,
             out |-> Ended("exit", <<>>, "")]
       ELSE IF cred_obj.err # ""
       THEN [credsFile |-> credsText \o <<"\n">>, configFile |-> configText,
             out |-> Ended("invalid_json", <<>>, "")]
       ELSE [credsFile |-> saved.credsFile, configFile |-> saved.configFile,
             out |-> IF saved.result.err = ""
                     THEN Ended("saved", saved.result.val, "")
                     ELSE Ended("raised", <<>>, saved.result.err)]

Ingest(creds, credsText, configText, io) ==
    LET cred_obj == JsonLoads(creds)
        saved == SaveCredentials(cred_obj.val, credsText, configText, io)
    IN IF creds.kind = "interrupt"
       THEN [credsFile |-> credsText, configFile |-> configText,
             out |-> Ended("exit", <<>>, "")]
       ELSE IF cred_obj.err # ""
       THEN [credsFile |-> credsText, configFile |-> configText,
             out |-> Ended("invalid_json", <<>>, "")]
       ELSE [credsFile |-> saved.credsFile, configFile |-> saved.configFile,
             out |-> IF saved.result.err = ""
                     THEN Ended("saved", saved.result.val, "")
                     ELSE Ended("raised", <<>>, saved.result.err)]

----------------------------------------------------------------------------
(* Bounds and sample inputs *)

MaxIngest == 2      \* no-argument invocations in a run
MaxLines == 3       \* lines of a file given to parse_config_file
MaxStoreLines == 2  \* lines of each store given to parse_configuration_data
MaxProfiles == 2    \* rows of a table given to print_table

\* An ARN arn:aws:sts::ACCOUNT:assumed-role/ROLE/SESSION
Arn(account, role, session) ==
    <<"arn", ":", "aws", ":", "sts", ":", ":">> \o account
    \o <<":", "assumed-role", "/">> \o role \o <<"/">> \o session

\* The timestamp 1970-01-01T00:MM:SS+00:00 that is n seconds after midnight
TimeStamp(n) ==
    <<"1970-01-01T00", ":", Digits[((n \div 60) \div 10) + 1], Digits[((n \div 60) % 10) + 1],
      ":", Digits[((n % 60) \div 10) + 1], Digits[((n % 60) % 10) + 1], "+00", ":", "00">>

\* The JSON object of the input payload shape; a field given as Absent is
\* left out of its object.
Absent == <<"<absent>">>
Fields(pairs) == SelectSeq(pairs, LAMBDA kv : kv[2] # Absent)
Payload(arn, access_key_id, secret_access_key, session_token, expiration) ==
    [type |-> "dict",
     items |-> << <<"AssumedRoleUser", Fields(<< <<"Arn", arn>> >>)>>,
                  <<"Credentials",
                    Fields(<< <<"AccessKeyId", access_key_id>>,
                              <<"SecretAccessKey", secret_access_key>>,
                              <<"SessionToken", session_token>>,
                              <<"Expiration", expiration>> >>)>> >>]

\* The ARNs of the sample payloads, by their parts
ArnForms ==
    { [account |-> <<"123456789012">>, role |-> <<"MyRole">>, session |-> <<"MySession">>],
      [account |-> <<"123456789012">>, role |-> <<"Admin">>, session |-> <<"MySession">>],
      [account |-> <<"123456789012">>, role |-> <<"MyRole">>, session |-> <<"dev", "]">>] }
ArnOf(f) == Arn(f.account, f.role, f.session)

StsPayloads ==
    { Payload(ArnOf(f), <<"AKIA1">>, <<"secret1">>, <<"token1">>, TimeStamp(600)) : f \in ArnForms }
    \cup
    { \* the same role assumed again: new keys, a token with base64 padding
      Payload(Arn(<<"123456789012">>, <<"MyRole">>, <<"MySession">>),
              <<"AKIA2">>, <<"secret2">>, <<"token2", "=", "=">>, TimeStamp(1200)),
      \* a token with a line break in it
      Payload(Arn(<<"123456789012">>, <<"MyRole">>, <<"MySession">>),
              <<"AKIA1">>, <<"secret1">>, <<"token1", "\n", "junk">>, TimeStamp(600)),
      \* an expiration strptime rejects
      Payload(Arn(<<"123456789012">>, <<"Admin">>, <<"MySession">>),
              <<"AKIA1">>, <<"secret1">>, <<"token1">>, <<"tomorrow">>),
      \* an ARN with too few '/' segments
      Payload(<<"arn", ":", "aws", ":", "sts", ":", ":", "123456789012", ":",
                "assumed-role", "/", "MyRole">>,
              <<"AKIA1">>, <<"secret1">>, <<"token1">>, TimeStamp(600)),
      \* a required field left out: one read before the stores are opened, one after
      Payload(Absent, <<"AKIA1">>, <<"secret1">>, <<"token1">>, TimeStamp(600)),
      Payload(Arn(<<"123456789012">>, <<"MyRole">>, <<"MySession">>),
              <<"AKIA1">>, <<"secret1">>, Absent, TimeStamp(600)) }

\* What standard input may hold: JSON for a payload, JSON for a value that is
\* no object ("[]"), text that is not JSON ('{"foo": }'), or an interrupt
\* in place of text.
StdinTexts ==
    { [kind |-> "text", json |-> TRUE, value |-> v] : v \in StsPayloads }
    \cup { [kind |-> "text", json |-> TRUE, value |-> [type |-> "list", items |-> <<>>]],
           [kind |-> "text", json |-> FALSE, value |-> [type |-> "", items |-> <<>>]],
           [kind |-> "interrupt", json |-> FALSE, value |-> [type |-> "", items |-> <<>>]] }

\* No call fails, an open fails, or a write fails after nothing or after the
\* first character of the block has reached the file.
IoOutcomes ==
    { NoFailure, [failAt |-> "openCreds", written |-> 0], [failAt |-> "openConfig", written |-> 0] }
    \cup { [failAt |-> f, written |-> n] : f \in {"writeCreds", "writeConfig"}, n \in {0, 1} }

\* Answers at the prompt: a line of text, an interrupt, or end of input
KeyboardLines ==
    { <<"1">>, <<"2">>, <<"3">>, <<"0">>, <<"-", "1">>, <<" ", "2", " ">>, <<"x">>, <<>> }
KeyboardAnswers ==
    { [kind |-> "line", text |-> t] : t \in KeyboardLines }
    \cup { [kind |-> "interrupt", text |-> <<>>], [kind |-> "eof", text |-> <<>>] }

\* Clock readings: 300 s after midnight, and one tick later
ClockTicks == { 300 * TicksPerSecond, 300 * TicksPerSecond + 1 }
\* The readings of one render: one per row, never going back
Clocks(n) == { c \in [1..n -> ClockTicks] : \A i \in 1..n, j \in 1..n : i <= j => c[i] <= c[j] }

\* os.environ: each variable unset or set to one of two values
EnvNames == <<"PATH", "AWS_REGION", "AWS_PROFILE", "AWS_DEFAULT_PROFILE", "AWS_ACCESS_KEY_ID",
              "AWS_SECRET_ACCESS_KEY", "AWS_SESSION_TOKEN">>
EnvDict(f) == Fields([i \in 1..Len(EnvNames) |-> <<EnvNames[i], f[i]>>])
SampleEnvs ==
    { EnvDict(f) : f \in { g \in [1..Len(EnvNames) -> {Absent, <<"old">>, <<"other">>}] :
                               g[1] # Absent } }

----------------------------------------------------------------------------
(* The program: invocations of main, one after another, on the two stores *)

MainEnvs ==
    { << <<"PATH", <<"old">>>>, <<"AWS_PROFILE", <<"old">>>>,
         <<"AWS_ACCESS_KEY_ID", <<"old">>>>, <<"AWS_SESSION_TOKEN", <<"other">>>> >> }

Idle ==
    /\ pc = "shell"
    /\ data = <<>> /\ keys = <<>> /\ role_number = 0 /\ table = <<>> /\ now = <<>>
    /\ spawned = <<>> /\ kbd = NoKbd /\ stdin = NoStdin /\ out = NoOut
    /\ ret = NotApplied /\ n_ingest = 0 /\ ingested = <<>>

Init ==
    /\ credsFile = <<>>
    /\ configFile = <<>>
    /\ environ \in MainEnvs
    /\ Idle

\* The invocation gets as far as opening a store (line 73), so that the
\* file system has a say in how it ends.
OpensStore(creds) ==
    Ingest(creds, <<>>, <<>>, [failAt |-> "openCreds", written |-> 0]).out
        = Ended("raised", <<>>, "OSError")

\* main, no argument (line 310-321)
MainNoArgs ==
    \E creds \in StdinTexts :
      \E io \in IF OpensStore(creds) THEN IoOutcomes ELSE {NoFailure} :
        LET r == Ingest(creds, credsFile, configFile, io) IN
        /\ pc = "shell"
        /\ n_ingest < MaxIngest
        /\ n_ingest' = n_ingest + 1
        /\ stdin' = creds
        /\ credsFile' = r.credsFile
        /\ configFile' = r.configFile
        /\ out' = r.out
        /\ ingested' = IF r.out.kind = "saved" THEN Append(ingested, creds.value)
                       ELSE ingested
        /\ data' = <<>> /\ keys' = <<>> /\ role_number' = 0 /\ table' = <<>> /\ now' = <<>>
        /\ spawned' = <<>> /\ kbd' = NoKbd
        /\ UNCHANGED <<environ, pc, ret>>

\* main, argument "menu" (line 308-309), up to run_ui's first prompt
MenuTicks == { 300 * TicksPerSecond }
MainMenu ==
    /\ pc = "shell"
    /\ \E t \in MenuTicks :
        RunUiStart([i \in 1..Len(ParseConfigurationData(configFile, credsFile).data) |-> t])

\* run_ui, blocked in input(), reads an answer (line 287-302)
MainPrompt ==
    \E answer \in KeyboardAnswers :
        \E started \in IF Selects(answer, Len(keys)) THEN BOOLEAN ELSE {TRUE} :
            Prompt(answer, started)

\* main, any other argument (line 305-308): nothing is done
MainOtherArgs ==
    /\ pc = "shell"
    /\ out' = Ended("nothing", <<>>, "")
    /\ data' = <<>> /\ keys' = <<>> /\ role_number' = 0 /\ table' = <<>> /\ now' = <<>>
    /\ spawned' = <<>> /\ kbd' = NoKbd /\ stdin' = NoStdin
    /\ UNCHANGED <<credsFile, configFile, environ, pc, ret, n_ingest, ingested>>

Next == MainNoArgs \/ MainMenu \/ MainPrompt \/ MainOtherArgs

Spec == Init /\ [][Next]_vars

----------------------------------------------------------------------------
(* parse_config_file applied to a file *)

SampleLines ==
    { <<>>, <<" ">>, <<"#", "x">>,
      <<"[", "a", "]">>, <<"[", "b", "]">>, <<"[", "]">>,
      <<"k", "=", "v">>, <<" ", "k", " ", "=", " ", "w", "=", "u", " ">>, <<"j", "=", "v">>,
      <<"x">> }

RECURSIVE FilesOf(_, _)
FilesOf(lines, n) ==
    IF n = 0 THEN {<<>>}
    ELSE FilesOf(lines, n - 1)
         \cup { Join(ls, "\n") : ls \in [1..n -> lines] }

InitParse ==
    /\ credsFile \in FilesOf(SampleLines, MaxLines)
    /\ configFile = <<>>
    /\ environ = <<>>
    /\ Idle

ApplyParseConfigFile ==
    /\ ~ret.applied
    /\ ret' = Returned(ParseConfigFile(credsFile))
    /\ UNCHANGED <<credsFile, configFile, environ, pc, data, keys, role_number, table,
                   now, spawned, kbd, stdin, out, n_ingest, ingested>>

NextParse == ApplyParseConfigFile

SpecParse == InitParse /\ [][NextParse]_vars

----------------------------------------------------------------------------
(* parse_configuration_data applied to two stores *)

StoreLines ==
    { <<"[", "a", "]">>, <<"[", "b", "]">>,
      <<"k", "=", "1">>, <<"k", "=", "2">>, <<"j", "=", "3">> }

InitMerge ==
    /\ credsFile \in FilesOf(StoreLines, MaxStoreLines)
    /\ configFile \in FilesOf(StoreLines, MaxStoreLines)
    /\ environ = <<>>
    /\ Idle

ApplyParseConfigurationData ==
    /\ ~ret.applied
    /\ ret' = Returned(ParseConfigurationData(configFile, credsFile))
    /\ UNCHANGED <<credsFile, configFile, environ, pc, data, keys, role_number, table,
                   now, spawned, kbd, stdin, out, n_ingest, ingested>>

NextMerge == ApplyParseConfigurationData

SpecMerge == InitMerge /\ [][NextMerge]_vars

----------------------------------------------------------------------------
(* print_table applied to merged profiles *)

\* Expirations around the thresholds, for a clock near 300 s
SampleSeconds == {0, 299, 300, 359, 360, 899, 900, 901}
SampleAttributes ==
    { <<>>, << <<<<"expiration">>, <<"tomorrow">>>> >> }
    \cup { << <<<<"expiration">>, TimeStamp(n)>>, <<<<"role_name">>, <<"MyRole">>>> >> :
           n \in SampleSeconds }
SampleNames == << <<"p">>, <<"q">>, <<"r">>, <<"s">> >>
SampleProfiles ==
    UNION { { [i \in 1..n |-> <<SampleNames[i], f[i]>>] : f \in [1..n -> SampleAttributes] } :
            n \in 0..MaxProfiles }

InitTable ==
    /\ data \in SampleProfiles
    /\ credsFile = <<>>
    /\ configFile = <<>>
    /\ environ = <<>>
    /\ pc = "shell"
    /\ keys = <<>> /\ role_number = 0 /\ table = <<>> /\ now = <<>>
    /\ spawned = <<>> /\ kbd = NoKbd /\ stdin = NoStdin /\ out = NoOut
    /\ ret = NotApplied /\ n_ingest = 0 /\ ingested = <<>>

ApplyPrintTable ==
    \E clock \in Clocks(Len(data)) :
        LET t == PrintTable(data, clock) IN
        /\ ~ret.applied
        /\ now' = clock
        /\ ret' = Returned(Some(t.val))
        /\ out' = IF t.err = "" THEN Ended("printed", <<>>, "")
                  ELSE Ended("raised", <<>>, t.err)
        /\ table' = IF t.err = "" THEN t.val.rows ELSE <<>>
        /\ keys' = IF t.err = "" THEN t.val.keys ELSE <<>>
        /\ UNCHANGED <<credsFile, configFile, environ, pc, data, role_number,
                       spawned, kbd, stdin, n_ingest, ingested>>

NextTable == ApplyPrintTable

SpecTable == InitTable /\ [][NextTable]_vars

----------------------------------------------------------------------------
(* launch_role applied in a process environment *)

InitLaunch ==
    /\ environ \in SampleEnvs
    /\ credsFile = <<>>
    /\ configFile = <<>>
    /\ Idle

ApplyLaunchRole ==
    \E profile_name \in {<<"p">>, <<"q", "-", "r">>}, started \in BOOLEAN :
        LET r == LaunchRole(profile_name,
                            << <<<<"aws_access_key_id">>, <<"AKIA1">>>>,
                               <<<<"aws_session_token">>, <<"token1">>>> >>,
                            environ, started)
        IN
        /\ spawned = <<>>
        /\ environ' = r.environ
        /\ spawned' = Append(spawned, r.call)
        /\ UNCHANGED <<credsFile, configFile, pc, data, keys, role_number, table, now,
                       kbd, stdin, out, ret, n_ingest, ingested>>

NextLaunch == ApplyLaunchRole

SpecLaunch == InitLaunch /\ [][NextLaunch]_vars

----------------------------------------------------------------------------
(* Claims about parse_config_file, under SpecParse *)

\* The lines of the parsed file, each trimmed
FileLines == LET ls == Split(credsFile, "\n") IN [i \in 1..Len(ls) |-> Strip(ls[i], Whitespace)]
LineNumbers == 1..Len(FileLines)

IsBlank(l) == l = <<>>
IsComment(l) == l # <<>> /\ l[1] = "#"
\* '[name]', the name not empty and free of brackets
IsHeader(l) ==
    /\ Len(l) >= 3 /\ l[1] = "[" /\ l[Len(l)] = "]"
    /\ \A i \in 2..(Len(l) - 1) : l[i] \notin Brackets
IsKeyValue(l) == l # <<>> /\ l[1] \notin {"#", "["} /\ \E i \in 1..Len(l) : l[i] = "="
IsOffending(l) == l # <<>> /\ l[1] \notin {"#", "["} /\ \A i \in 1..Len(l) : l[i] # "="
WellFormed == \A i \in LineNumbers :
    IsBlank(FileLines[i]) \/ IsComment(FileLines[i]) \/ IsHeader(FileLines[i])
    \/ IsKeyValue(FileLines[i])

HeaderName(l) == SubSeq(l, 2, Len(l) - 1)
Equals(l) == CHOOSE i \in 1..Len(l) : l[i] = "=" /\ \A j \in 1..(i - 1) : l[j] # "="
KeyOf(l) == Strip(SubSeq(l, 1, Equals(l) - 1), Whitespace)
ValueOf(l) == Strip(SubSeq(l, Equals(l) + 1, Len(l)), Whitespace)

Headers == { h \in LineNumbers : IsHeader(FileLines[h]) }
HeadersNamed(n) == { h \in Headers : HeaderName(FileLines[h]) = n }
Max(S) == CHOOSE x \in S : \A y \in S : y <= x
Min(S) == CHOOSE x \in S : \A y \in S : x <= y
\* The header a line stands under: the nearest one above it, 0 when none is
HeaderAbove(j) == IF \E h \in Headers : h < j THEN Max({ h \in Headers : h < j }) ELSE 0
\* The key/value lines under header h that declare key k
Declarations(h, k) ==
    { j \in LineNumbers : /\ IsKeyValue(FileLines[j]) /\ HeaderAbove(j) = h
                          /\ KeyOf(FileLines[j]) = k }
KeysUnder(h) ==
    { KeyOf(FileLines[j]) : j \in { i \in LineNumbers : IsKeyValue(FileLines[i])
                                                        /\ HeaderAbove(i) = h } }

\* C4: parse_config_file returns None exactly when some line of the file,
\* wherever it stands, is non-blank after trimming, begins with neither '#'
\* nor '[' and holds no '='; otherwise it returns a mapping.
C4_AllOrNothing ==
    ret.applied => (ret.value.isNone <=> \E i \in LineNumbers : IsOffending(FileLines[i]))

\* An offending line after a complete section: nothing of the section is returned.
C4_Witness ==
    /\ ret.applied /\ ret.value.isNone
    /\ Len(FileLines) = 3
    /\ IsHeader(FileLines[1]) /\ IsKeyValue(FileLines[2]) /\ IsOffending(FileLines[3])

\* The sections are listed in the order of their first headers.
SectionOrder(sections) ==
    /\ { sections[i][1] : i \in 1..Len(sections) }
         = { HeaderName(FileLines[h]) : h \in Headers }
    /\ \A a \in 1..Len(sections), b \in 1..Len(sections) :
           a < b => Min(HeadersNamed(sections[a][1])) < Min(HeadersNamed(sections[b][1]))

\* C5 as stated: for a well-formed file the sections come in header order,
\* each section holds every key declared under a header of its name, with
\* the trimmed text after the first '=' as value, and nothing else.
C5_EveryDeclaredKey ==
    (ret.applied /\ WellFormed) =>
        /\ ~ret.value.isNone
        /\ SectionOrder(ret.value.data)
        /\ \A i \in 1..Len(ret.value.data) :
             LET n == ret.value.data[i][1]
                 section == ret.value.data[i][2]
                 declared == UNION { KeysUnder(h) : h \in HeadersNamed(n) }
             IN /\ { section[x][1] : x \in 1..Len(section) } = declared
                /\ \A k \in declared :
                       \E h \in HeadersNamed(n) : \E j \in Declarations(h, k) :
                           DictGet(section, k) = ValueOf(FileLines[j])

\* C5 as amended: a header resets its section, so a section holds the keys
\* declared under the last header of its name, each with the value of its
\* last declaration there.
C5_KeysOfLastHeader ==
    (ret.applied /\ WellFormed) =>
        /\ ~ret.value.isNone
        /\ SectionOrder(ret.value.data)
        /\ \A i \in 1..Len(ret.value.data) :
             LET n == ret.value.data[i][1]
                 section == ret.value.data[i][2]
                 last == Max(HeadersNamed(n))
                 declared == KeysUnder(last)
             IN /\ { section[x][1] : x \in 1..Len(section) } = declared
                /\ \A k \in declared :
                       DictGet(section, k) = ValueOf(FileLines[Max(Declarations(last, k))])

\* A header repeated after a key: the key is gone from the section.
C5_Witness ==
    /\ ret.applied /\ WellFormed
    /\ Len(FileLines) = 3
    /\ IsHeader(FileLines[1]) /\ IsKeyValue(FileLines[2]) /\ FileLines[3] = FileLines[1]
    /\ ret.value.data = << <<HeaderName(FileLines[1]), <<>>>> >>

----------------------------------------------------------------------------
(* Claim about parse_configuration_data, under SpecMerge *)

AsMapping(d) == [k \in { d[i][1] : i \in 1..Len(d) } |-> DictGet(d, k)]

\* C6: for every pair of successfully parsed stores, the credentials store
\* holding at least one section and the config store any number, none
\* included, the merged result has the credentials store's section names in
\* the credentials store's order; a section the config store lacks has the
\* credentials attributes; a section of both has the union of the attributes,
\* the config store's value on each key of both.
C6_MergeOfParsedStores ==
    LET cred_items == ParseConfigFile(credsFile)
        config_items == ParseConfigFile(configFile)
        profiles == ret.value.data
    IN (ret.applied /\ ~cred_items.isNone /\ ~config_items.isNone /\ cred_items.data # <<>>) =>
        /\ ~ret.value.isNone
        /\ DictKeys(profiles) = DictKeys(cred_items.data)
        /\ \A i \in 1..Len(profiles) :
             LET n == profiles[i][1]
                 got == AsMapping(profiles[i][2])
                 creds == AsMapping(DictGet(cred_items.data, n))
                 config == IF DictHas(config_items.data, n)
                           THEN AsMapping(DictGet(config_items.data, n)) ELSE << >>
             IN /\ DOMAIN got = DOMAIN creds \cup DOMAIN config
                /\ \A k \in DOMAIN got :
                       got[k] = IF k \in DOMAIN config THEN config[k] ELSE creds[k]

----------------------------------------------------------------------------
(* Claim about print_table, under SpecTable *)

\* The seconds after midnight a timestamp names
SecondsOf(timestamp) == CHOOSE n \in 0..3599 : TimeStamp(n) = timestamp

\* C7: row i has index i and the i-th profile's name, the names are returned
\* in that order, and with s the seconds from the clock's reading to the
\* profile's expiration the status is N/A uncoloured when there is no
\* expiration, "Expired N minutes ago" in red with N the whole minutes of |s|
\* when s < 0, the whole seconds of s in red when 0 <= s < 60, in yellow when
\* 60 <= s < 600, in green when s >= 600.
C7_StatusThresholds ==
    (ret.applied /\ out.kind = "printed") =>
        /\ keys = [i \in 1..Len(data) |-> data[i][1]]
        /\ Len(table) = Len(data)
        /\ \A i \in 1..Len(data) :
             LET profile == data[i][2]
                 cell == table[i].expiration
                 s == TicksPerSecond * SecondsOf(DictGet(profile, <<"expiration">>)) - now[i]
             IN /\ table[i].index = i
                /\ table[i].name = data[i][1]
                /\ IF ~DictHas(profile, <<"expiration">>)
                   THEN cell = Cell("N/A", 0, "")
                   ELSE IF s < 0
                   THEN cell = Cell("expired", (-s) \div (60 * TicksPerSecond), "red")
                   ELSE /\ cell.kind = "seconds"
                        /\ cell.n = s \div TicksPerSecond
                        /\ cell.color = IF s < 60 * TicksPerSecond THEN "red"
                                        ELSE IF s < 600 * TicksPerSecond THEN "yellow"
                                        ELSE "green"

\* A table with exactly 600 seconds left in one row, shown green, and an
\* expiration 300 seconds past in the other, shown as 5 minutes ago.
C7_Witness ==
    /\ ret.applied /\ out.kind = "printed" /\ Len(table) = 2
    /\ table[1].expiration = Cell("seconds", 600, "green")
    /\ table[2].expiration = Cell("expired", 5, "red")

----------------------------------------------------------------------------
(* Claim about launch_role, under SpecLaunch *)

Cleared == {"AWS_DEFAULT_PROFILE", "AWS_ACCESS_KEY_ID", "AWS_SECRET_ACCESS_KEY",
            "AWS_SESSION_TOKEN"}

\* C8: the terminal's environment has AWS_PROFILE set to the given profile
\* name, has none of AWS_DEFAULT_PROFILE, AWS_ACCESS_KEY_ID,
\* AWS_SECRET_ACCESS_KEY, AWS_SESSION_TOKEN, and has every other variable as
\* the parent has it; the parent's environment stays as it was.
C8_LaunchEnvironment ==
    [][spawned' # spawned =>
         LET call == spawned'[Len(spawned')]
             child == AsMapping(call.env)
             parent == AsMapping(environ)
         IN /\ "AWS_PROFILE" \in DOMAIN child
            /\ child["AWS_PROFILE"] = call.profile_name
            /\ DOMAIN child \cap Cleared = {}
            /\ DOMAIN child \ {"AWS_PROFILE"} = DOMAIN parent \ (Cleared \cup {"AWS_PROFILE"})
            /\ \A v \in DOMAIN child \ {"AWS_PROFILE"} : child[v] = parent[v]
            /\ environ' = environ]_vars

\* A launch from a parent that has another profile active and credentials in
\* its environment.
C8_Witness ==
    /\ spawned # <<>>
    /\ Cleared \cup {"AWS_PROFILE", "AWS_REGION"} \subseteq DOMAIN AsMapping(environ)
    /\ DictGet(environ, "AWS_PROFILE") # spawned[1].profile_name

----------------------------------------------------------------------------
(* Claims about the program, under Spec *)

\* The fields of a sample payload
PayloadArn(v) == DictGet(DictGet(v.items, "AssumedRoleUser"), "Arn")
PayloadField(v, k) == DictGet(DictGet(v.items, "Credentials"), k)
\* The parts of a sample payload's ARN, and ACCOUNT-ROLE-SESSION
FormOf(v) == CHOOSE f \in ArnForms : ArnOf(f) = PayloadArn(v)
NameOf(v) == LET f == FormOf(v) IN f.account \o <<"-">> \o f.role \o <<"-">> \o f.session

\* C1: a successful ingestion of a payload with ARN
\* arn:P:S:R:ACCOUNT:assumed-role/ROLE/SESSION, whatever was ingested before,
\* returns ACCOUNT-ROLE-SESSION, and a parse and merge of the two stores
\* then has a profile of that name with role_name ROLE and session_name
\* SESSION.
C1_RoundTrip ==
    out.kind = "saved" =>
        LET f == FormOf(stdin.value)
            profiles == ParseConfigurationData(configFile, credsFile)
        IN /\ out.name = NameOf(stdin.value)
           /\ ~profiles.isNone
           /\ DictHas(profiles.data, out.name)
           /\ LET profile == DictGet(profiles.data, out.name)
              IN /\ DictHas(profile, <<"role_name">>)
                 /\ DictGet(profile, <<"role_name">>) = f.role
                 /\ DictHas(profile, <<"session_name">>)
                 /\ DictGet(profile, <<"session_name">>) = f.session

\* C2: a no-argument invocation that reads text that is not JSON ends with
\* the invalid-json message, returns no profile name and leaves both stores
\* as they were.
C2_InvalidJsonWritesNothing ==
    [][(n_ingest' = n_ingest + 1 /\ stdin'.kind = "text" /\ ~stdin'.json) =>
         /\ out' = Ended("invalid_json", <<>>, "")
         /\ credsFile' = credsFile
         /\ configFile' = configFile]_vars

\* Text that is not JSON was read when both stores already held a profile.
C2_Witness ==
    /\ stdin.kind = "text" /\ ~stdin.json /\ out.kind = "invalid_json"
    /\ credsFile # <<>> /\ configFile # <<>>

\* C3: a no-argument invocation that fails for another reason than invalid
\* JSON leaves both stores as they were or leaves each with the complete
\* block of the profile appended.
C3_NoPartialWrite ==
    [][(n_ingest' = n_ingest + 1 /\ out'.kind = "raised") =>
         \/ credsFile' = credsFile /\ configFile' = configFile
         \/ LET v == stdin'.value
                f == FormOf(v)
            IN /\ v \in StsPayloads
               /\ \E g \in ArnForms : ArnOf(g) = PayloadArn(v)
               /\ \A k \in {"AccessKeyId", "SecretAccessKey", "SessionToken", "Expiration"} :
                      DictHas(DictGet(v.items, "Credentials"), k)
               /\ credsFile' = credsFile
                      \o CredsBlock(NameOf(v), PayloadField(v, "AccessKeyId"),
                                    PayloadField(v, "SecretAccessKey"),
                                    PayloadField(v, "SessionToken"))
               /\ configFile' = configFile
                      \o ConfigBlock(NameOf(v), f.session, PayloadField(v, "Expiration"),
                                     f.role)]_vars

\* What the sample answers spell
IsNumber(text) == text \in { <<"1">>, <<"2">>, <<"3">>, <<"0">>, <<"-", "1">>, <<" ", "2", " ">> }
NumberOf(text) ==
    CASE text = <<"1">> -> 1
      [] text = <<"2">> -> 2
      [] text = <<"3">> -> 3
      [] text = <<"0">> -> 0
      [] text = <<"-", "1">> -> -1
      [] text = <<" ", "2", " ">> -> 2

\* C9: at the prompt under a table of N >= 1 profiles, an answer that is not
\* an integer in 1..N launches nothing and is followed by another prompt; an
\* answer that is an integer k in 1..N is followed by the one launch of the
\* invocation, of the profile in row k with its merged attributes; an
\* interrupt ends the invocation with no launch; and no step of menu mode
\* changes a store.
C9_Selection ==
    [][/\ n_ingest' = n_ingest => (credsFile' = credsFile /\ configFile' = configFile)
       /\ (pc = "shell" /\ pc' = "prompt") => (spawned' = <<>> /\ Len(table') >= 1)
       /\ pc = "prompt" =>
            LET N == Len(table)
                k == NumberOf(kbd'.text)
                selects == kbd'.kind = "line" /\ IsNumber(kbd'.text) /\ k \in 1..N
                merged == ParseConfigurationData(configFile, credsFile).data
            IN IF selects
               THEN /\ spawned = <<>> /\ Len(spawned') = 1
                    /\ table[k].index = k
                    /\ spawned'[1].profile_name = table[k].name
                    /\ AsMapping(spawned'[1].config_data)
                         = AsMapping(DictGet(merged, table[k].name))
                    /\ pc' = "shell"
               ELSE IF kbd'.kind = "line"
               THEN spawned' = <<>> /\ pc' = "prompt" /\ table' = table
               ELSE spawned' = <<>> /\ pc' = "shell"]_vars

\* The second of two displayed profiles was chosen and launched.
C9_Witness ==
    /\ pc = "shell" /\ out.kind = "launched" /\ Len(table) = 2
    /\ kbd.text = <<"2">> /\ Len(spawned) = 1
    /\ spawned[1].profile_name = table[2].name

\* The names ingested so far
IngestedNames == { NameOf(ingested[i]) : i \in 1..Len(ingested) }
FirstIngestion(n) == Min({ i \in 1..Len(ingested) : NameOf(ingested[i]) = n })
LastIngestion(n) == ingested[Max({ i \in 1..Len(ingested) : NameOf(ingested[i]) = n })]

\* C10: after successful ingestions only, a parse and merge of the stores
\* has one profile for each name ingested, in the order the names were first
\* ingested, with the credentials, expiration, role_name and session_name
\* of the latest ingestion of that name.
C10_LatestIngestionWins ==
    (ingested # <<>> /\ Len(ingested) = n_ingest) =>
        LET profiles == ParseConfigurationData(configFile, credsFile) IN
        /\ ~profiles.isNone
        /\ { profiles.data[i][1] : i \in 1..Len(profiles.data) } = IngestedNames
        /\ \A a \in 1..Len(profiles.data), b \in 1..Len(profiles.data) :
               a < b => FirstIngestion(profiles.data[a][1]) < FirstIngestion(profiles.data[b][1])
        /\ \A i \in 1..Len(profiles.data) :
               LET v == LastIngestion(profiles.data[i][1])
                   profile == AsMapping(profiles.data[i][2])
               IN /\ { <<"aws_access_key_id">>, <<"aws_secret_access_key">>,
                       <<"aws_session_token">>, <<"expiration">>, <<"role_name">>,
                       <<"session_name">> } \subseteq DOMAIN profile
                  /\ profile[<<"aws_access_key_id">>] = PayloadField(v, "AccessKeyId")
                  /\ profile[<<"aws_secret_access_key">>] = PayloadField(v, "SecretAccessKey")
                  /\ profile[<<"aws_session_token">>] = PayloadField(v, "SessionToken")
                  /\ profile[<<"expiration">>] = PayloadField(v, "Expiration")
                  /\ profile[<<"role_name">>] = FormOf(v).role
                  /\ profile[<<"session_name">>] = FormOf(v).session

====
